---- MODULE Spec2Model ----
(***************************************************************************)
(* Model of the inkscape-mcp editor extension (src/lib.rs).                *)
(*                                                                         *)
(* The extension is a unit struct with one trait method,                   *)
(* context_server_command(&mut self, id, _project), which the host calls   *)
(* to learn how to launch a context server.  The model has the extension   *)
(* instance and the host's invocations of the method: an invocation is     *)
(* first called (its arguments are bound) and then runs the method body,   *)
(* which is a single match on the id.  Invocations may be outstanding at   *)
(* the same time and run in any order.                                     *)
(*                                                                         *)
(* Strings are TLA+ strings; "a" \o "b" is concatenation.                  *)
(***************************************************************************)
EXTENDS Integers, Sequences, FiniteSets, TLC

\* Most invocations the host makes in one behaviour.
MaxCalls == 3

\* Ids the host passes: the known id, the empty string, the known id with
\* leading and with trailing whitespace, a case variant, and another name.
Ids == {"inkscape-mcp", "", " inkscape-mcp", "inkscape-mcp ", "Inkscape-MCP", "other-server"}

\* Project handles the host passes.
Projects == {"projectA", "projectB"}

VARIABLES self, calls

vars == <<self, calls>>

----------------------------------------------------------------------------
(* Values *)

\* struct InkscapeMcpExtension; -- a unit struct: the empty tuple of fields.
InkscapeMcpExtension == <<>>

\* zed::Result<T>: Ok(value) or Err(message).
Ok(c) == [tag |-> "Ok", value |-> c]

Err(m) == [tag |-> "Err", message |-> m]

\* zed::Command { command, args, env }
Command(command, args, env) == [command |-> command, args |-> args, env |-> env]

\* env: Default::default() -- the empty list of (name, value) pairs.
DefaultEnv == <<>>

\* vec!["run".to_string(), "inkscape-mcp".to_string()]
LaunchArgsReversed == <<"inkscape-mcp", "run">>

LaunchArgs == <<"run", "inkscape-mcp">>

\* id.0.as_str() trimmed and lower-cased, on the ids of the model.
TrimFold(id) ==
    CASE id = " inkscape-mcp" -> "inkscape-mcp"
      [] id = "inkscape-mcp " -> "inkscape-mcp"
      [] id = "Inkscape-MCP" -> "inkscape-mcp"
      [] OTHER -> id

MatchesTrimFold(id) == TrimFold(id) = "inkscape-mcp"

\* The pattern of the first match arm: the scrutinee id.0.as_str() equals
\* the literal "inkscape-mcp".
Matches(id) == id = "inkscape-mcp"

UnknownServerQuoted(id) == "Unknown server: '" \o id \o "'"

\* format!("Unknown server: {}", id.0): Display of a String is the string.
UnknownServer(id) == "Unknown server: " \o id

----------------------------------------------------------------------------
(* The method.  It returns the result and, the receiver being &mut self,   *)
(* the extension it leaves behind.                                         *)

\* Variant: the extension keeps the id of the call before and the error
\* message is built from it.
context_server_command_stale(ext, id, project) ==
    [self |-> <<id>>,
     ret  |-> IF Matches(id)
              THEN Ok(Command("uv", LaunchArgs, DefaultEnv))
              ELSE Err(UnknownServer(IF ext = <<>> THEN id ELSE ext[1]))]

\* Variant: the extension records the last id requested.
context_server_command_recording(ext, id, project) ==
    [self |-> <<id>>,
     ret  |-> IF Matches(id)
              THEN Ok(Command("uv", LaunchArgs, DefaultEnv))
              ELSE Err(UnknownServer(id))]

\* Variant: once a request has failed, the extension refuses every request.
context_server_command_latched(ext, id, project) ==
    [self |-> IF Matches(id) THEN ext ELSE <<"failed">>,
     ret  |-> IF Matches(id) /\ ext = <<>>
              THEN Ok(Command("uv", LaunchArgs, DefaultEnv))
              ELSE Err(UnknownServer(id))]

\* Variant: the empty id, outside the documented input, is not answered.
context_server_command_partial(ext, id, project) ==
    [self |-> ext,
     ret  |-> IF Matches(id)
              THEN Ok(Command("uv", LaunchArgs, DefaultEnv))
              ELSE IF id = "" THEN [tag |-> "Panic"]
              ELSE Err(UnknownServer(id))]

\* Variant: the project is passed on to the server in its environment.
context_server_command_project_env(ext, id, project) ==
    [self |-> ext,
     ret  |-> IF Matches(id)
              THEN Ok(Command("uv", LaunchArgs, <<<<"ZED_PROJECT", project>>>>))
              ELSE Err(UnknownServer(id))]

context_server_command(ext, id, project) ==
    [self |-> ext,
     ret  |-> IF Matches(id)
              THEN Ok(Command("uv", LaunchArgs, DefaultEnv))
              ELSE Err(UnknownServer(id))]

----------------------------------------------------------------------------
(* State machine *)

\* An invocation whose body has not run has no result yet.
NoResult == [tag |-> "None"]

\* zed::register_extension!(InkscapeMcpExtension): one instance, no calls.
Init ==
    /\ self = InkscapeMcpExtension
    /\ calls = <<>>

\* The host invokes the method: id and project are bound.
Call(id, project) ==
    /\ Len(calls) < MaxCalls
    /\ calls' = Append(calls, [id |-> id, project |-> project, pc |-> "called",
                               ret |-> NoResult, alone |-> FALSE])
    /\ UNCHANGED self

\* The body of invocation i runs and returns.  alone records that no other
\* invocation had been made when it ran.
Resolve(i) ==
    /\ i \in DOMAIN calls
    /\ calls[i].pc = "called"
    /\ LET r == context_server_command(self, calls[i].id, calls[i].project)
       IN /\ self' = r.self
          /\ calls' = [calls EXCEPT ![i] = [@ EXCEPT !.pc = "returned",
                                                    !.ret = r.ret,
                                                    !.alone = (Len(calls) = 1)]]

Next ==
    \/ \E id \in Ids, project \in Projects : Call(id, project)
    \/ \E i \in 1..MaxCalls : Resolve(i)

Spec == Init /\ [][Next]_vars

\* Every invocation made is eventually run by the host.
FairSpec == Spec /\ \A i \in 1..MaxCalls : WF_vars(Resolve(i))

----------------------------------------------------------------------------
(* Helpers for the properties *)

Returned(i) == i \in DOMAIN calls /\ calls[i].pc = "returned"

Pending(i) == i \in DOMAIN calls /\ calls[i].pc = "called"

----------------------------------------------------------------------------
(* Properties *)

\* C1: every invocation with id "inkscape-mcp" returns Ok with exactly
\* command "uv", args the two strings "run", "inkscape-mcp" in that order, and
\* an empty env.
C1_KnownIdLaunchSpec ==
    \A i \in DOMAIN calls :
        (Returned(i) /\ calls[i].id = "inkscape-mcp") =>
            /\ calls[i].ret.tag = "Ok"
            /\ DOMAIN calls[i].ret = {"tag", "value"}
            /\ DOMAIN calls[i].ret.value = {"command", "args", "env"}
            /\ calls[i].ret.value.command = "uv"
            /\ Len(calls[i].ret.value.args) = 2
            /\ calls[i].ret.value.args[1] = "run"
            /\ calls[i].ret.value.args[2] = "inkscape-mcp"
            /\ calls[i].ret.value.env = <<>>

C1_Witness ==
    \E i \in DOMAIN calls : Returned(i) /\ calls[i].id = "inkscape-mcp"

\* C2: an invocation returns Ok if and only if its id is "inkscape-mcp"
\* character for character; the empty id, the ids with leading or trailing
\* whitespace and the case variant return Err and carry no launch spec.
C2_SucceedsIffExactId ==
    \A i \in DOMAIN calls :
        Returned(i) =>
            /\ (calls[i].ret.tag = "Ok") <=> (calls[i].id = "inkscape-mcp")
            /\ calls[i].id \in {"", " inkscape-mcp", "inkscape-mcp ", "Inkscape-MCP"} =>
                   /\ calls[i].ret.tag = "Err"
                   /\ "value" \notin DOMAIN calls[i].ret

C2_Witness ==
    /\ \E i \in DOMAIN calls :
           Returned(i) /\ calls[i].id = "Inkscape-MCP" /\ calls[i].ret.tag = "Err"
    /\ \E i \in DOMAIN calls :
           Returned(i) /\ calls[i].id = "inkscape-mcp " /\ calls[i].ret.tag = "Err"
    /\ \E i \in DOMAIN calls :
           Returned(i) /\ calls[i].id = "inkscape-mcp" /\ calls[i].ret.tag = "Ok"

\* C3: for every id other than "inkscape-mcp" the error message is
\* "Unknown server: " followed by the id unchanged; "other-server" gives
\* "Unknown server: other-server" and the empty id gives "Unknown server: ".
C3_ErrorMessageVerbatim ==
    \A i \in DOMAIN calls :
        (Returned(i) /\ calls[i].id # "inkscape-mcp") =>
            /\ calls[i].ret.tag = "Err"
            /\ calls[i].ret.message = "Unknown server: " \o calls[i].id
            /\ Len(calls[i].ret.message) = 16 + Len(calls[i].id)
            /\ calls[i].id = "other-server" =>
                   calls[i].ret.message = "Unknown server: other-server"
            /\ calls[i].id = "" => calls[i].ret.message = "Unknown server: "
            /\ calls[i].id = " inkscape-mcp" =>
                   calls[i].ret.message = "Unknown server:  inkscape-mcp"
            /\ calls[i].id = "inkscape-mcp " =>
                   calls[i].ret.message = "Unknown server: inkscape-mcp "
            /\ calls[i].id = "Inkscape-MCP" =>
                   calls[i].ret.message = "Unknown server: Inkscape-MCP"

C3_Witness ==
    /\ \E i \in DOMAIN calls : Returned(i) /\ calls[i].id = "other-server"
    /\ \E i \in DOMAIN calls : Returned(i) /\ calls[i].id = ""

\* C4: two invocations with the same id return equal results, whatever
\* invocations were made before or between them.
C4_Deterministic ==
    \A i, j \in DOMAIN calls :
        (Returned(i) /\ Returned(j) /\ calls[i].id = calls[j].id) =>
            calls[i].ret = calls[j].ret

C4_Witness ==
    /\ Len(calls) = 3
    /\ \A i \in DOMAIN calls : Returned(i)
    /\ calls[1].id = calls[3].id
    /\ calls[2].id # calls[1].id
    /\ calls[1].alone

\* C5: no step changes the extension, which stays as it was registered, on
\* the success path and on the failure path; and an invocation with id
\* "inkscape-mcp" that runs after another invocation has failed returns Ok.
C5_NoSideEffects ==
    [][/\ self' = self
       /\ self' = InkscapeMcpExtension
       /\ \A i \in DOMAIN calls :
              (/\ Pending(i)
               /\ Returned(i)'
               /\ calls[i].id = "inkscape-mcp"
               /\ \E j \in DOMAIN calls : Returned(j) /\ calls[j].ret.tag = "Err")
              => calls'[i].ret.tag = "Ok"]_vars

C5_Witness ==
    /\ self = InkscapeMcpExtension
    /\ Len(calls) >= 2
    /\ Returned(1) /\ calls[1].alone /\ calls[1].ret.tag = "Err"
    /\ Returned(2) /\ calls[2].id = "inkscape-mcp" /\ calls[2].ret.tag = "Ok"

\* C6: an invocation that runs while other invocations are outstanding or
\* done returns what an invocation with the same id returns when it runs
\* alone.
C6_SameAsAlone ==
    \A i, j \in DOMAIN calls :
        (/\ Returned(i) /\ calls[i].alone
         /\ Returned(j) /\ ~calls[j].alone
         /\ calls[i].id = calls[j].id) =>
            calls[j].ret = calls[i].ret

C6_Witness ==
    /\ Len(calls) = 3
    /\ Returned(1) /\ calls[1].alone
    /\ Pending(2) /\ calls[2].id # calls[3].id
    /\ Returned(3) /\ calls[3].id = calls[1].id

\* The outcome of a finished invocation is Ok with a launch spec or Err with
\* a message, never both and nothing else, and Err only for an unknown id.
OneOfTwoOutcomes(i) ==
    \/ /\ calls[i].ret.tag = "Ok"
       /\ DOMAIN calls[i].ret = {"tag", "value"}
    \/ /\ calls[i].ret.tag = "Err"
       /\ DOMAIN calls[i].ret = {"tag", "message"}
       /\ calls[i].id # "inkscape-mcp"

\* C7: every invocation, whatever its id (the empty id included), finishes:
\* from every state a state is reached where no invocation is outstanding (a
\* finished invocation stays finished); and a finished invocation has
\* exactly one of the two outcomes.
C7_TotalAndTerminates ==
    /\ [](\A i \in DOMAIN calls : Returned(i) => OneOfTwoOutcomes(i))
    /\ []<>(\A i \in DOMAIN calls : Returned(i))

C7_Witness ==
    /\ \E i \in DOMAIN calls : Returned(i) /\ calls[i].id = "" /\ calls[i].ret.tag = "Err"
    /\ \E i \in DOMAIN calls : Returned(i) /\ calls[i].ret.tag = "Ok"

\* C8: two invocations with the same id and different projects return equal
\* results, and the env of a returned launch spec is empty for every project.
C8_ProjectIgnored ==
    /\ \A i, j \in DOMAIN calls :
           (Returned(i) /\ Returned(j) /\ calls[i].id = calls[j].id
               /\ calls[i].project # calls[j].project) =>
               calls[i].ret = calls[j].ret
    /\ \A i \in DOMAIN calls :
           (Returned(i) /\ calls[i].ret.tag = "Ok") => calls[i].ret.value.env = <<>>

C8_Witness ==
    \E i, j \in DOMAIN calls :
        /\ Returned(i) /\ Returned(j)
        /\ calls[i].id = "inkscape-mcp" /\ calls[j].id = "inkscape-mcp"
        /\ calls[i].project # calls[j].project
        /\ calls[i].ret.tag = "Ok" /\ calls[j].ret.tag = "Ok"

====
